---------------------------- MODULE Spec2Model ----------------------------
(***************************************************************************)
(* A model of d8s_ip_addresses/ip_addresses.py.                            *)
(*                                                                         *)
(* Text is a sequence of one-character strings, so that parsing,           *)
(* formatting, splitting and replacing are computed character by           *)
(* character.  An address value is a record [ok, v, g]: v is the version   *)
(* (4 or 6) and g the groups of the address, four octets or eight          *)
(* hextets, most significant first (the 32 and 128 bit integers of the     *)
(* library, kept as groups so that no width is lost).                      *)
(*                                                                         *)
(* A call of a function of the module is one action: it draws the          *)
(* arguments, and leaves the function's name, the arguments and the        *)
(* outcome (a returned value or a raised exception) in the state.          *)
(* Generator objects made by ip_network_block_enumerate live in gens and   *)
(* are advanced one element at a time.                                     *)
(***************************************************************************)
EXTENDS Integers, Sequences, FiniteSets, TLC

VARIABLES op, args, result, gens

vars == <<op, args, result, gens>>

(***************************************************************************)
(* Characters and Python's str primitives                                  *)
(***************************************************************************)
DecDigits == <<"0", "1", "2", "3", "4", "5", "6", "7", "8", "9">>

HexLower == <<"0", "1", "2", "3", "4", "5", "6", "7", "8", "9",
              "a", "b", "c", "d", "e", "f">>

HexUpper == <<"0", "1", "2", "3", "4", "5", "6", "7", "8", "9",
              "A", "B", "C", "D", "E", "F">>

IsDecDigit(c) == \E i \in 1..10 : DecDigits[i] = c

IsHexDigit(c) == \E i \in 1..16 : HexLower[i] = c \/ HexUpper[i] = c

DecVal(c) == (CHOOSE i \in 1..10 : DecDigits[i] = c) - 1

HexVal(c) == (CHOOSE i \in 1..16 : HexLower[i] = c \/ HexUpper[i] = c) - 1

\* str.split(sep) for a one-character separator
RECURSIVE Split(_, _)
Split(s, sep) ==
    IF \A i \in 1..Len(s) : s[i] # sep
    THEN <<s>>
    ELSE LET k == CHOOSE i \in 1..Len(s) :
                      s[i] = sep /\ \A j \in 1..(i - 1) : s[j] # sep
         IN  <<SubSeq(s, 1, k - 1)>> \o Split(SubSeq(s, k + 1, Len(s)), sep)

\* sep.join(parts)
RECURSIVE Join(_, _)
Join(parts, sep) ==
    IF Len(parts) = 0 THEN <<>>
    ELSE IF Len(parts) = 1 THEN parts[1]
    ELSE parts[1] \o sep \o Join(Tail(parts), sep)

StartsWith(s, p) == Len(s) >= Len(p) /\ SubSeq(s, 1, Len(p)) = p

\* str.replace(old, new): leftmost non-overlapping occurrences, old not empty
RECURSIVE Replace(_, _, _)
Replace(s, old, new) ==
    IF Len(s) = 0 THEN <<>>
    ELSE IF StartsWith(s, old)
         THEN new \o Replace(SubSeq(s, Len(old) + 1, Len(s)), old, new)
         ELSE <<s[1]>> \o Replace(Tail(s), old, new)

\* str.lstrip(c) for a one-character set
RECURSIVE LStrip(_, _)
LStrip(s, c) ==
    IF Len(s) > 0 /\ s[1] = c THEN LStrip(Tail(s), c) ELSE s

\* int(s, 10) and int(s, 16) on digit strings
RECURSIVE IntDec(_)
IntDec(s) ==
    IF Len(s) = 0 THEN 0
    ELSE IntDec(SubSeq(s, 1, Len(s) - 1)) * 10 + DecVal(s[Len(s)])

RECURSIVE IntHex(_)
IntHex(s) ==
    IF Len(s) = 0 THEN 0
    ELSE IntHex(SubSeq(s, 1, Len(s) - 1)) * 16 + HexVal(s[Len(s)])

\* str(n) and '%x' % n for n >= 0
RECURSIVE StrDec(_)
StrDec(n) ==
    IF n < 10 THEN <<DecDigits[n + 1]>>
    ELSE StrDec(n \div 10) \o <<DecDigits[(n % 10) + 1]>>

RECURSIVE StrHex(_)
StrHex(n) ==
    IF n < 16 THEN <<HexLower[n + 1]>>
    ELSE StrHex(n \div 16) \o <<HexLower[(n % 16) + 1]>>

\* '%04x' % n
Hex4(n) ==
    LET h == StrHex(n)
    IN  SubSeq(<<"0", "0", "0">>, 1, 4 - Len(h)) \o h

AllDec(s) == \A i \in 1..Len(s) : IsDecDigit(s[i])

AllHex(s) == \A i \in 1..Len(s) : IsHexDigit(s[i])

Contains(s, c) == \E i \in 1..Len(s) : s[i] = c

RECURSIVE Pow2(_)
Pow2(n) == IF n = 0 THEN 1 ELSE 2 * Pow2(n - 1)

\* The({e(x) : x \in {v}}) is e with x standing for the value of v
The(S) == CHOOSE x \in S : TRUE

Min(a, b) == IF a < b THEN a ELSE b

Max(a, b) == IF a > b THEN a ELSE b

(***************************************************************************)
(* Outcomes of a call                                                      *)
(***************************************************************************)
Return(x) == [kind |-> "return", value |-> x]

Raise(e) == [kind |-> "raise", value |-> e]

(***************************************************************************)
(* ipaddress: parsing address text                                         *)
(***************************************************************************)
NoAddress == [ok |-> FALSE, v |-> 0, g |-> <<>>, scope |-> <<>>]

Address(v, g) == [ok |-> TRUE, v |-> v, g |-> g, scope |-> <<>>]

\* IPv4Address._parse_octet
OctetOk(s) ==
    /\ Len(s) > 0
    /\ AllDec(s)
    /\ Len(s) <= 3
    /\ ~(s # <<"0">> /\ s[1] = "0")
    /\ IntDec(s) <= 255

\* IPv4Address(text): IPv4Address._ip_int_from_string
IPv4Address(s) ==
    The({ IF Len(s) = 0 \/ Len(octets) # 4 THEN NoAddress
          ELSE IF \E i \in 1..4 : ~OctetOk(octets[i]) THEN NoAddress
          ELSE Address(4, [i \in 1..4 |-> IntDec(octets[i])])
        : octets \in {Split(s, ".")} })

\* IPv6Address._parse_hextet
HextetOk(s) == Len(s) > 0 /\ AllHex(s) /\ Len(s) <= 4

\* the parts of an address that holds "::" at part skip: hi parts before
\* it, lo parts after it, zero hextets between
IPv6Skipping(parts, n, hi, lo) ==
    IF parts[1] = <<>> /\ hi # 0 THEN NoAddress
    ELSE IF parts[n] = <<>> /\ lo # 0 THEN NoAddress
    ELSE IF 8 - (hi + lo) < 1 THEN NoAddress
    ELSE IF \/ \E i \in 1..hi : ~HextetOk(parts[i])
            \/ \E i \in (n - lo + 1)..n : ~HextetOk(parts[i])
         THEN NoAddress
    ELSE Address(6, [i \in 1..8 |->
             IF i <= hi THEN IntHex(parts[i])
             ELSE IF i <= 8 - lo THEN 0
             ELSE IntHex(parts[n - 8 + i])])

\* the parts of an address, after an IPv4-style end became two hextets
IPv6FromParts(parts, n, skips) ==
    IF n > 9 THEN NoAddress
    ELSE IF Cardinality(skips) > 1 THEN NoAddress
    ELSE IF skips # {}
    THEN The({ IPv6Skipping(parts, n,
                   IF parts[1] = <<>> THEN skip - 2 ELSE skip - 1,
                   IF parts[n] = <<>> THEN n - skip - 1 ELSE n - skip)
             : skip \in skips })
    ELSE IF n # 8 THEN NoAddress
    ELSE IF \E i \in 1..8 : ~HextetOk(parts[i]) THEN NoAddress
    ELSE Address(6, [i \in 1..8 |-> IntHex(parts[i])])

\* the empty parts between the first and the last part: the "::"
SkipIndexes(parts) == {i \in 2..(Len(parts) - 1) : parts[i] = <<>>}

\* the parts with an IPv4-style last part v4 written as two hextets
WithHexEnd(parts, v4) ==
    SubSeq(parts, 1, Len(parts) - 1)
        \o <<StrHex(v4.g[1] * 256 + v4.g[2]), StrHex(v4.g[3] * 256 + v4.g[4])>>

\* IPv6Address._ip_int_from_string
IPv6FromString(s) ==
    The({ IF Len(s) = 0 \/ Len(parts0) < 3 THEN NoAddress
          ELSE The({ IF Contains(parts0[Len(parts0)], ".") /\ ~v4.ok
                     THEN NoAddress
                     ELSE The({ IPv6FromParts(parts, Len(parts),
                                              SkipIndexes(parts))
                              : parts \in {IF v4.ok
                                           THEN WithHexEnd(parts0, v4)
                                           ELSE parts0} })
                   : v4 \in {IF Contains(parts0[Len(parts0)], ".")
                             THEN IPv4Address(parts0[Len(parts0)])
                             ELSE NoAddress} })
        : parts0 \in {Split(s, ":")} })

\* IPv6Address(text): no "/", an optional "%zone" suffix split off
\* (_split_scope_id), the rest parsed by _ip_int_from_string
IPv6Address(s) ==
    The({ IF Contains(s, "/") THEN NoAddress
          ELSE IF Len(cut) > 2 \/ (Len(cut) = 2 /\ cut[2] = <<>>)
          THEN NoAddress
          ELSE The({ IF ~a.ok THEN NoAddress
                     ELSE [a EXCEPT !.scope =
                              IF Len(cut) > 1 THEN cut[2] ELSE <<>>]
                   : a \in {IPv6FromString(cut[1])} })
        : cut \in {Split(s, "%")} })

\* ipaddress.ip_address(text): IPv4 first, then IPv6, else ValueError
ip_address(s) ==
    The({ IF a4.ok THEN a4 ELSE IPv6Address(s) : a4 \in {IPv4Address(s)} })

(***************************************************************************)
(* ipaddress: formatting an address                                        *)
(***************************************************************************)
\* number of consecutive "0" hextets of g starting at i
RECURSIVE ZeroRun(_, _)
ZeroRun(g, i) ==
    IF i > Len(g) \/ g[i] # 0 THEN 0 ELSE 1 + ZeroRun(g, i + 1)

\* the length of the longest run of zero hextets
BestLen(g) ==
    CHOOSE n \in 0..8 :
        /\ \E i \in 1..8 : ZeroRun(g, i) = n
        /\ \A i \in 1..8 : ZeroRun(g, i) <= n

\* where the first run of that length starts
BestStart(g, best) ==
    CHOOSE i \in 1..8 :
        /\ ZeroRun(g, i) = best
        /\ \A j \in 1..(i - 1) : ZeroRun(g, j) < best

\* hextets[start:stop] = [''], with one more '' at either end of the list
Collapse(hextets, start, stop) ==
    (IF start = 1 THEN << <<>> >> ELSE <<>>)
        \o SubSeq(hextets, 1, start - 1) \o << <<>> >>
        \o SubSeq(hextets, stop, 8)
        \o (IF stop = 9 THEN << <<>> >> ELSE <<>>)

\* _BaseV6._compress_hextets: the first longest run of at least two zero
\* hextets becomes one empty part, doubled at either end of the list
CompressHextets(g) ==
    The({ IF best > 1
          THEN The({ Collapse([i \in 1..8 |-> StrHex(g[i])], start,
                              start + best)
                   : start \in {BestStart(g, best)} })
          ELSE [i \in 1..8 |-> StrHex(g[i])]
        : best \in {BestLen(g)} })

\* str(address), also .compressed
Str(a) ==
    IF a.v = 4
    THEN Join([i \in 1..4 |-> StrDec(a.g[i])], <<".">>)
    ELSE Join(CompressHextets(a.g), <<":">>)
             \o (IF a.scope # <<>> THEN <<"%">> \o a.scope ELSE <<>>)

\* IPv6Address.exploded (_explode_shorthand_ip_string): str(self) is parsed
\* again by _ip_int_from_string and written as eight groups of four digits
Exploded(a) ==
    The({ IF ~again.ok THEN Raise("AddressValueError")
          ELSE Return(Join([i \in 1..8 |-> Hex4(again.g[i])], <<":">>))
        : again \in {IPv6FromString(Str(a))} })

(***************************************************************************)
(* ipaddress: networks                                                     *)
(***************************************************************************)
GroupBits(v) == IF v = 4 THEN 8 ELSE 16

MaxPrefixLen(v) == IF v = 4 THEN 32 ELSE 128

\* bits of a /prefix netmask that fall in group i
MaskBits(v, prefix, i) ==
    Max(0, Min(GroupBits(v), prefix - GroupBits(v) * (i - 1)))

\* the host mask of group i, as a modulus
HostMod(v, prefix, i) == Pow2(GroupBits(v) - MaskBits(v, prefix, i))

\* _ip_int_from_prefix, as groups
NetmaskGroups(v, prefix) ==
    [i \in 1..(IF v = 4 THEN 4 ELSE 8) |->
        Pow2(GroupBits(v)) - HostMod(v, prefix, i)]

NoPrefix == -1

\* _prefix_from_prefix_string: ASCII digits only, 0..max
PrefixFromPrefixString(v, s) ==
    LET digits == LStrip(s, "0")
    IN  IF Len(s) = 0 \/ ~AllDec(s) THEN NoPrefix
        ELSE IF Len(digits) > 3 THEN NoPrefix
        ELSE IF IntDec(digits) > MaxPrefixLen(v) THEN NoPrefix
        ELSE IntDec(digits)

\* the prefix lengths whose netmask is the groups g
PrefixesOf(g) == {p \in 0..32 : g = NetmaskGroups(4, p)}

\* _BaseV4._prefix_from_ip_string: a dotted netmask, else a dotted hostmask
PrefixFromIpString(s) ==
    The({ IF ~m.ok THEN NoPrefix
          ELSE IF PrefixesOf(m.g) # {} THEN The(PrefixesOf(m.g))
          ELSE The({ IF hosts # {} THEN The(hosts) ELSE NoPrefix
                   : hosts \in {PrefixesOf([i \in 1..4 |-> 255 - m.g[i]])} })
        : m \in {IPv4Address(s)} })

\* _make_netmask
MakeNetmask(v, s) ==
    The({ IF prefix # NoPrefix THEN prefix
          ELSE IF v = 4 THEN PrefixFromIpString(s) ELSE NoPrefix
        : prefix \in {PrefixFromPrefixString(v, s)} })

NoNetwork(e) == [ok |-> FALSE, err |-> e, addr |-> NoAddress, prefix |-> 0]

\* the network of an address and a prefix length, strict: no host bits
NetworkOf(addr, prefix) ==
    IF ~addr.ok THEN NoNetwork("AddressValueError")
    ELSE IF prefix = NoPrefix THEN NoNetwork("NetmaskValueError")
    ELSE IF \E i \in 1..Len(addr.g) :
                addr.g[i] % HostMod(addr.v, prefix, i) # 0
         THEN NoNetwork("ValueError")
    ELSE [ok |-> TRUE, err |-> "", addr |-> addr, prefix |-> prefix]

\* IPv4Network(text, strict=True) and IPv6Network(text, strict=True)
Network(v, s) ==
    The({ IF Len(parts) > 2 THEN NoNetwork("AddressValueError")
          ELSE The({ IF ~addr.ok THEN NoNetwork("AddressValueError")
                     ELSE NetworkOf(addr,
                              IF Len(parts) = 1 THEN MaxPrefixLen(v)
                              ELSE MakeNetmask(v, parts[2]))
                   : addr \in {IF v = 4 THEN IPv4Address(parts[1])
                               ELSE IPv6Address(parts[1])} })
        : parts \in {Split(s, "/")} })

\* ipaddress.ip_network(text): IPv4Network first; its AddressValueError and
\* NetmaskValueError lead on to IPv6Network, its "has host bits set"
\* ValueError is raised at once
ip_network(s) ==
    The({ IF n4.ok \/ n4.err = "ValueError" THEN n4
          ELSE The({ IF n6.ok \/ n6.err = "ValueError" THEN n6
                     ELSE NoNetwork("ValueError")
                   : n6 \in {Network(6, s)} })
        : n4 \in {Network(4, s)} })

\* the address k above the groups g (int(address) + k)
RECURSIVE AddInt(_, _, _)
AddInt(g, base, k) ==
    IF Len(g) = 0 THEN <<>>
    ELSE LET s == g[Len(g)] + k
         IN  AddInt(SubSeq(g, 1, Len(g) - 1), base, s \div base)
                 \o <<s % base>>

\* network.num_addresses
NumAddresses(n) == Pow2(MaxPrefixLen(n.addr.v) - n.prefix)

\* network.network_address
NetworkAddress(n) == n.addr

\* network.broadcast_address: network | hostmask, a fresh address object
BroadcastAddress(n) ==
    Address(n.addr.v, [i \in 1..Len(n.addr.g) |->
        n.addr.g[i] + HostMod(n.addr.v, n.prefix, i) - 1])

\* the address at offset k of the network, a fresh address object
AddressAt(n, k) ==
    Address(n.addr.v, AddInt(n.addr.g, Pow2(GroupBits(n.addr.v)), k))

\* network.hosts(): the whole block for a prefix one short of the longest,
\* the address itself for the longest prefix, else the block without its
\* first address and, for IPv4 only, without its last
Hosts(n) ==
    LET size == NumAddresses(n)
        maxp == MaxPrefixLen(n.addr.v)
    IN  IF n.prefix = maxp - 1 THEN [k \in 1..size |-> AddressAt(n, k - 1)]
        ELSE IF n.prefix = maxp THEN <<n.addr>>
        ELSE IF n.addr.v = 4 THEN [k \in 1..(size - 2) |-> AddressAt(n, k)]
        ELSE [k \in 1..(size - 1) |-> AddressAt(n, k)]

\* address in network (_BaseNetwork.__contains__)
InNetwork(a, v, g, prefix) ==
    /\ a.v = v
    /\ \A i \in 1..Len(g) :
           a.g[i] - (a.g[i] % HostMod(v, prefix, i)) = g[i]


(***************************************************************************)
(* ipaddress: the special-purpose ranges                                   *)
(***************************************************************************)
V6Net(h1, h2, h3, prefix) == <<6, <<h1, h2, h3, 0, 0, 0, 0, 0>>, prefix>>

\* _IPv4Constants._private_networks
PrivateNetworks4 ==
    { <<4, <<0, 0, 0, 0>>, 8>>,        <<4, <<10, 0, 0, 0>>, 8>>,
      <<4, <<127, 0, 0, 0>>, 8>>,      <<4, <<169, 254, 0, 0>>, 16>>,
      <<4, <<172, 16, 0, 0>>, 12>>,    <<4, <<192, 0, 0, 0>>, 29>>,
      <<4, <<192, 0, 0, 170>>, 31>>,   <<4, <<192, 0, 2, 0>>, 24>>,
      <<4, <<192, 168, 0, 0>>, 16>>,   <<4, <<198, 18, 0, 0>>, 15>>,
      <<4, <<198, 51, 100, 0>>, 24>>,  <<4, <<203, 0, 113, 0>>, 24>>,
      <<4, <<240, 0, 0, 0>>, 4>>,      <<4, <<255, 255, 255, 255>>, 32>> }

\* _IPv4Constants._reserved_network
ReservedNetworks4 == { <<4, <<240, 0, 0, 0>>, 4>> }

\* _IPv4Constants._multicast_network
MulticastNetworks4 == { <<4, <<224, 0, 0, 0>>, 4>> }

\* _IPv6Constants._private_networks
PrivateNetworks6 ==
    { <<6, <<0, 0, 0, 0, 0, 0, 0, 1>>, 128>>,
      <<6, <<0, 0, 0, 0, 0, 0, 0, 0>>, 128>>,
      <<6, <<0, 0, 0, 0, 0, 65535, 0, 0>>, 96>>,
      V6Net(256, 0, 0, 64),      V6Net(8193, 0, 0, 23),
      V6Net(8193, 2, 0, 48),     V6Net(8193, 3512, 0, 32),
      V6Net(8193, 16, 0, 28),    V6Net(64512, 0, 0, 7),
      V6Net(65152, 0, 0, 10) }

\* _IPv6Constants._reserved_networks
ReservedNetworks6 ==
    { V6Net(0, 0, 0, 8),      V6Net(256, 0, 0, 8),    V6Net(512, 0, 0, 7),
      V6Net(1024, 0, 0, 6),   V6Net(2048, 0, 0, 5),   V6Net(4096, 0, 0, 4),
      V6Net(16384, 0, 0, 3),  V6Net(24576, 0, 0, 3),  V6Net(32768, 0, 0, 3),
      V6Net(40960, 0, 0, 3),  V6Net(49152, 0, 0, 3),  V6Net(57344, 0, 0, 4),
      V6Net(61440, 0, 0, 5),  V6Net(63488, 0, 0, 6),  V6Net(65024, 0, 0, 9) }

\* _IPv6Constants._multicast_network
MulticastNetworks6 == { V6Net(65280, 0, 0, 8) }

InAny(a, nets) == \E n \in nets : InNetwork(a, n[1], n[2], n[3])

\* IPv6Address.ipv4_mapped: the IPv4 address of ::ffff:a.b.c.d, else none
Ipv4Mapped(a) ==
    IF a.v = 6 /\ (\A i \in 1..5 : a.g[i] = 0) /\ a.g[6] = 65535
    THEN Address(4, <<a.g[7] \div 256, a.g[7] % 256,
                      a.g[8] \div 256, a.g[8] % 256>>)
    ELSE NoAddress

\* address.is_private
IsPrivate(a) ==
    IF a.v = 4 THEN InAny(a, PrivateNetworks4)
    ELSE IF Ipv4Mapped(a).ok THEN InAny(Ipv4Mapped(a), PrivateNetworks4)
    ELSE InAny(a, PrivateNetworks6)

\* address.is_reserved
IsReserved(a) ==
    IF a.v = 4 THEN InAny(a, ReservedNetworks4)
    ELSE InAny(a, ReservedNetworks6)

\* address.is_multicast
IsMulticast(a) ==
    IF a.v = 4 THEN InAny(a, MulticastNetworks4)
    ELSE InAny(a, MulticastNetworks6)

(***************************************************************************)
(* The functions of ip_addresses.py.  Each gives the outcome of one call.  *)
(***************************************************************************)
ip_is_private(ip) ==
    LET a == ip_address(ip)
    IN  IF ~a.ok THEN Raise("ValueError") ELSE Return(IsPrivate(a))

ip_is_multicast(ip) ==
    LET a == ip_address(ip)
    IN  IF ~a.ok THEN Raise("ValueError") ELSE Return(IsMulticast(a))

ip_is_public(ip) ==
    LET a == ip_address(ip)
    IN  IF ~a.ok THEN Raise("ValueError")
        ELSE Return(~IsMulticast(a) /\ ~IsPrivate(a))

\* a defect: the ValueError of ip_address is not caught
is_ip_address_uncaught(text) ==
    IF ~ip_address(text).ok THEN Raise("ValueError") ELSE Return(TRUE)

is_ip_address(text) ==
    IF ~ip_address(text).ok THEN Return(FALSE) ELSE Return(TRUE)

ip_is_reserved(ip) ==
    LET a == ip_address(ip)
    IN  IF ~a.ok THEN Raise("ValueError") ELSE Return(IsReserved(a))

ip_version(ip) ==
    LET a == ip_address(ip)
    IN  IF ~a.ok THEN Raise("ValueError") ELSE Return(a.v)

ip_network_block_first_address(network_block) ==
    LET n == ip_network(network_block)
    IN  IF ~n.ok THEN Raise("ValueError")
        ELSE Return(Str(NetworkAddress(n)))

ip_network_block_last_address(network_block) ==
    LET n == ip_network(network_block)
    IN  IF ~n.ok THEN Raise("ValueError")
        ELSE Return(Str(BroadcastAddress(n)))

ip_network_block_ip_count(network_block_string) ==
    LET n == ip_network(network_block_string)
    IN  IF ~n.ok THEN Raise("ValueError") ELSE Return(NumAddresses(n))

ip_network_block_to_range(network_block_string) ==
    LET n == ip_network(network_block_string)
    IN  IF ~n.ok THEN Raise("ValueError")
        ELSE Return(Str(NetworkAddress(n)) \o <<" ", "-", " ">>
                        \o Str(BroadcastAddress(n)))

\* The frame of the generator ip_network_block_enumerate makes: pc is
\* "start" before the first next(), "hosts" inside the yield from, "last"
\* after it and "done" once exhausted or failed; ip is the parsed network and
\* k the number of hosts yielded so far.
StartFrame == [pc |-> "start", ip |-> NoNetwork(""), k |-> 0]

\* One next() on the generator: the frame after it and what it produced, a
\* yielded text, StopIteration or the ValueError of ip_network.
EnumNext(network_block_string, f) ==
    IF f.pc = "start"
    THEN The({ IF ~ip.ok
               THEN [frame |-> [f EXCEPT !.pc = "done"],
                     out |-> Raise("ValueError")]
               ELSE [frame |-> [pc |-> "hosts", ip |-> ip, k |-> 0],
                     out |-> Return(Str(NetworkAddress(ip)))]
             : ip \in {ip_network(network_block_string)} })
    ELSE IF f.pc = "hosts"
    THEN The({ IF f.k < Len(hosts)
               THEN [frame |-> [f EXCEPT !.k = f.k + 1],
                     out |-> Return(Str(hosts[f.k + 1]))]
               ELSE [frame |-> [f EXCEPT !.pc = "last"],
                     out |-> Return(Str(BroadcastAddress(f.ip)))]
             : hosts \in {Hosts(f.ip)} })
    ELSE [frame |-> [f EXCEPT !.pc = "done"], out |-> Raise("StopIteration")]

\* The generator run to its end: the list of what it yields, or its error.
RECURSIVE EnumDrain(_, _, _)
EnumDrain(network_block_string, f, acc) ==
    The({ IF step.out.kind = "return"
          THEN EnumDrain(network_block_string, step.frame,
                         Append(acc, step.out.value))
          ELSE IF step.out.value = "StopIteration" THEN Return(acc)
          ELSE step.out
        : step \in {EnumNext(network_block_string, f)} })

\* list(ip_network_block_enumerate(network_block_string))
ip_network_block_enumerate(network_block_string) ==
    EnumDrain(network_block_string, StartFrame, <<>>)

\* ip_address in addresses: the generator is consumed and each yielded text
\* is compared with the given text
ip_in_network_block(ip_address_text, network_block) ==
    The({ IF addresses.kind = "raise" THEN addresses
          ELSE Return(\E i \in 1..Len(addresses.value) :
                          addresses.value[i] = ip_address_text)
        : addresses \in {ip_network_block_enumerate(network_block)} })

ipv6_expand(ip_v6) ==
    LET a == IPv6Address(ip_v6)
    IN  IF ~a.ok THEN Raise("AddressValueError") ELSE Exploded(a)

ipv6_compress(ip_v6) ==
    LET a == IPv6Address(ip_v6)
    IN  IF ~a.ok THEN Raise("AddressValueError") ELSE Return(Str(a))

Zeros4 == <<"0", "0", "0", "0">>

Placeholder == <<"x", "x", "x", "x">>

\* section.replace("0000", "xxxx").lstrip("0") for each section
AddressSections(sections) ==
    [i \in 1..Len(sections) |->
        LStrip(Replace(sections[i], Zeros4, Placeholder), "0")]

ipv6_threatconnect_form(ip_v6) ==
    The({ IF expanded.kind = "raise" THEN expanded
          ELSE Return(Replace(
                   Join(AddressSections(Split(expanded.value, ":")), <<":">>),
                   Placeholder, <<"0">>))
        : expanded \in {ipv6_expand(ip_v6)} })

\* int(i) for a part of a dotted text: decimal digits
IntOk(s) == Len(s) > 0 /\ AllDec(s)

RECURSIVE Sum(_)
Sum(ns) == IF Len(ns) = 0 THEN 0 ELSE ns[1] + Sum(Tail(ns))

\* a defect: octets above 255 are refused
ipv4_sum_validated(ipv4_address) ==
    LET parts == Split(ipv4_address, ".")
    IN  IF \E i \in 1..Len(parts) : ~OctetOk(parts[i]) THEN Raise("ValueError")
        ELSE Return(Sum([i \in 1..Len(parts) |-> IntDec(parts[i])]))

ipv4_sum(ipv4_address) ==
    LET parts == Split(ipv4_address, ".")
    IN  IF \E i \in 1..Len(parts) : ~IntOk(parts[i]) THEN Raise("ValueError")
        ELSE Return(Sum([i \in 1..Len(parts) |-> IntDec(parts[i])]))

\* the pattern (?<![0-9.])[0-9]{1,2}\.[0-2]\. matched at position i with a
\* first run of m digits
PatternAt(s, i, m) ==
    /\ i + m + 2 <= Len(s)
    /\ (i = 1 \/ ~(IsDecDigit(s[i - 1]) \/ s[i - 1] = "."))
    /\ \A j \in i..(i + m - 1) : IsDecDigit(s[j])
    /\ s[i + m] = "."
    /\ s[i + m + 1] \in {"0", "1", "2"}
    /\ s[i + m + 2] = "."

\* re.findall(pattern, s) is not empty
PatternFound(s) == \E i \in 1..Len(s) : \E m \in 1..2 : PatternAt(s, i, m)

\* a defect: the pattern without its lookbehind, matched inside an octet
ipv4_is_possible_version_number_unanchored(ipv4_address) ==
    IF \E i \in 1..Len(ipv4_address) : \E m \in 1..2 :
           PatternAt(SubSeq(ipv4_address, i, Len(ipv4_address)), 1, m)
    THEN Return(TRUE)
    ELSE The({ IF sum.kind = "raise" THEN sum
               ELSE IF sum.value < 30 THEN Return(TRUE)
               ELSE Return(FALSE)
             : sum \in {ipv4_sum(ipv4_address)} })

ipv4_is_possible_version_number(ipv4_address) ==
    IF PatternFound(ipv4_address) THEN Return(TRUE)
    ELSE The({ IF sum.kind = "raise" THEN sum
               ELSE IF sum.value < 30 THEN Return(TRUE)
               ELSE Return(FALSE)
             : sum \in {ipv4_sum(ipv4_address)} })

\* the words of ws that are literals of IP version v, in order
RECURSIVE Literals(_, _)
Literals(ws, v) ==
    IF Len(ws) = 0 THEN <<>>
    ELSE (IF (IF v = 4 THEN IPv4Address(ws[1]) ELSE IPv6Address(ws[1])).ok
          THEN <<ws[1]>> ELSE <<>>) \o Literals(Tail(ws), v)

\* ioc_finder.parse_ipv4_addresses: the IPv4 literals among the words of the
\* text, in the order found, duplicates kept
ipv4_addresses_find(text) == Literals(Split(text, " "), 4)

\* ioc_finder.parse_ipv6_addresses: likewise for IPv6 literals
ipv6_addresses_find(text) == Literals(Split(text, " "), 6)

\* a defect: the two families appended in the other order
ip_addresses_find_v6_first(text) ==
    Return(ipv6_addresses_find(text) \o ipv4_addresses_find(text))

ip_addresses_find(text) ==
    LET results0 == <<>>
        results1 == results0 \o ipv4_addresses_find(text)
        results2 == results1 \o ipv6_addresses_find(text)
    IN  Return(results2)

(***************************************************************************)
(* The arguments the calls are made with                                   *)
(***************************************************************************)
\* host bits of the largest network block enumerated
MaxHostBits == 3

\* words of the longest text searched for addresses
MaxWords == 3

\* generator objects alive at once
MaxGens == 2

\* host bits of the largest block a generator object walks
MaxGenHostBits == 1

\* last groups: the addresses of the largest block and the one after it
LastGroups == 0..Pow2(MaxHostBits)

\* first three octets of the IPv4 addresses: private, public, multicast,
\* reserved, private
Bases4 == { <<10, 0, 0>>, <<8, 8, 8>>, <<224, 0, 0>>, <<240, 0, 0>>,
            <<192, 168, 1>> }

\* first seven hextets of the IPv6 addresses: documentation, unspecified,
\* link local, multicast, reserved only, IPv4-mapped, global unicast
Bases6 == { <<8193, 3512, 0, 0, 0, 0, 0>>, <<0, 0, 0, 0, 0, 0, 0>>,
            <<65152, 0, 0, 0, 0, 0, 0>>,   <<65280, 0, 0, 0, 0, 2, 0>>,
            <<16384, 0, 0, 171, 0, 0, 0>>, <<0, 0, 0, 0, 0, 65535, 2560>>,
            <<9734, 18176, 0, 0, 4096, 0, 40960>> }

Values4 == {b \o <<x>> : b \in Bases4, x \in LastGroups}

Values6 == {b \o <<x>> : b \in Bases6, x \in LastGroups}

Upper(s) ==
    [i \in 1..Len(s) |->
        IF \E j \in 11..16 : HexLower[j] = s[i]
        THEN HexUpper[CHOOSE j \in 11..16 : HexLower[j] = s[i]]
        ELSE s[i]]

\* the spellings of an IPv6 address: shortest, upper case, eight groups of
\* four digits, eight groups without leading zeros, with a zone
Spellings6(g) ==
    LET short == Join(CompressHextets(g), <<":">>)
    IN  { short,
          Upper(short),
          Join([i \in 1..8 |-> Hex4(g[i])], <<":">>),
          Join([i \in 1..8 |-> StrHex(g[i])], <<":">>),
          short \o <<"%", "1">> }

Texts4 == {Join([i \in 1..4 |-> StrDec(g[i])], <<".">>) : g \in Values4}

Texts6 == UNION {Spellings6(g) : g \in Values6}

\* texts that are no address
Malformed ==
    { <<>>,
      <<"b", "a", "d">>,
      <<"1", ".", "2", ".", "3">>,
      <<"2", "5", "6", ".", "0", ".", "0", ".", "1">>,
      <<"0", "1", ".", "2", ".", "3", ".", "4">>,
      <<"1", ".", "2", ".", "3", ".", "4", ".", "5">>,
      <<"1", ":", "2">>,
      <<":", ":", ":">>,
      <<"1", ":", ":", "2", ":", ":", "3">>,
      <<"1", "2", "3", "4", "5", ":", ":">>,
      <<"g", ":", ":">>,
      <<"1", "0", ".", "0", ".", "0", ".", "0", "/", "3", "0">>,
      <<":", ":", "1", "/", "1", "2", "8">>,
      <<"f", "e", "8", "0", ":", ":", "1", "%">>,
      <<" ", "8", ".", "8", ".", "8", ".", "8">> }

AddrTexts == Texts4 \cup Texts6 \cup Malformed

\* addresses in and around the blocks below
NearTexts ==
    {t \in Texts4 : StartsWith(t, <<"1", "0", ".">>)}
    \cup UNION {Spellings6(<<8193, 3512, 0, 0, 0, 0, 0, x>>) : x \in LastGroups}
    \cup Malformed

Block4 == <<"1", "0", ".", "0", ".", "0", ".", "0">>

Block6 == <<"2", "0", "0", "1", ":", "d", "b", "8", ":", ":">>

Block6Long == Join([i \in 1..8 |-> Hex4(<<8193, 3512, 0, 0, 0, 0, 0, 0>>[i])],
                   <<":">>)

BlockTexts4 ==
    {Block4 \o <<"/">> \o StrDec(32 - h) : h \in 0..MaxHostBits}
    \cup { Block4,
           Block4 \o <<"/", "2", "5", "5", ".", "2", "5", "5", ".",
                       "2", "5", "5", ".", "2", "5", "2">>,
           <<"1", "9", "2", ".", "1", "6", "8", ".", "1", ".", "0",
             "/", "3", "0">>,
           <<"1", "0", ".", "0", ".", "0", ".", "4", "/", "3", "1">> }

BlockTexts6 ==
    {Block6 \o <<"/">> \o StrDec(128 - h) : h \in 0..MaxHostBits}
    \cup { Block6,
           Block6Long \o <<"/", "1", "2", "6">>,
           Block6 \o <<"2", "/", "1", "2", "7">> }

\* texts that are no network block: no address, host bits set, a prefix
\* too long, two slashes, an empty prefix
MalformedBlocks ==
    { <<>>,
      <<"b", "a", "d">>,
      <<"b", "a", "d", "/", "3", "0">>,
      Block4 \o <<"1", "/", "3", "0">>,
      Block4 \o <<"/", "3", "3">>,
      Block4 \o <<"/", "3", "0", "/", "1">>,
      Block4 \o <<"/">>,
      Block6 \o <<"1", "/", "1", "2", "6">>,
      Block6 \o <<"/", "1", "2", "9">> }

BlockTexts == BlockTexts4 \cup BlockTexts6 \cup MalformedBlocks

\* the octets of the dotted texts summed: one to three digits, a leading
\* zero, a value above 255
OctetTexts ==
    { <<"0">>, <<"1">>, <<"2">>, <<"8">>, <<"1", "0">>, <<"0", "2">>,
      <<"1", "9", "2">>, <<"3", "0", "0">> }

QuadTexts ==
    {Join(<<a, b, c, d>>, <<".">>) :
        a \in OctetTexts, b \in OctetTexts, c \in {<<"0">>, <<"8">>},
        d \in OctetTexts}

\* texts that are no dotted quad
NoQuadTexts ==
    { <<"b", "a", "d">>, <<"1", ".", "2", ".", "3">>,
      <<"v", "1", ".", "2", ".", "3">>, <<"1", "0", ".", "1", ".">> }

\* the words of the texts searched
Words ==
    { <<"8", ".", "8", ".", "8", ".", "8">>,
      <<"1", "0", ".", "0", ".", "0", ".", "1">>,
      <<":", ":", "1">>,
      <<"2", "0", "0", "1", ":", "d", "b", "8", ":", ":", "1">>,
      <<"v", "i", "s", "i", "t">> }

WordSeqs == UNION {[1..n -> Words] : n \in 0..MaxWords}

FindTexts == {Join(ws, <<" ">>) : ws \in WordSeqs}

\* the blocks the generator objects walk
GenBlocks ==
    {Block4 \o <<"/">> \o StrDec(32 - h) : h \in 0..MaxGenHostBits}
    \cup {Block6 \o <<"/">> \o StrDec(128 - MaxGenHostBits)}
    \cup {<<"b", "a", "d">>}

(***************************************************************************)
(* The calls                                                               *)
(***************************************************************************)
\* a name not bound to a generator object
NoGen == [live |-> FALSE, block |-> <<>>, frame |-> StartFrame,
          yielded |-> <<>>, ended |-> ""]

Init ==
    /\ op = "none"
    /\ args = <<>>
    /\ result = Return(<<>>)
    /\ gens = [i \in 1..MaxGens |-> NoGen]

\* A call is made when no call is pending; Returned hands the outcome to the
\* caller and leaves the module idle again.
Idle == op = "none"

call_is_ip_address ==
    /\ Idle
    /\ \E t \in AddrTexts :
           /\ op' = "is_ip_address"
           /\ args' = <<t>>
           /\ result' = is_ip_address(t)
    /\ UNCHANGED gens

call_ip_is_private ==
    /\ Idle
    /\ \E t \in AddrTexts :
           /\ op' = "ip_is_private"
           /\ args' = <<t>>
           /\ result' = ip_is_private(t)
    /\ UNCHANGED gens

call_ip_is_public ==
    /\ Idle
    /\ \E t \in AddrTexts :
           /\ op' = "ip_is_public"
           /\ args' = <<t>>
           /\ result' = ip_is_public(t)
    /\ UNCHANGED gens

call_ip_is_multicast ==
    /\ Idle
    /\ \E t \in AddrTexts :
           /\ op' = "ip_is_multicast"
           /\ args' = <<t>>
           /\ result' = ip_is_multicast(t)
    /\ UNCHANGED gens

call_ip_is_reserved ==
    /\ Idle
    /\ \E t \in AddrTexts :
           /\ op' = "ip_is_reserved"
           /\ args' = <<t>>
           /\ result' = ip_is_reserved(t)
    /\ UNCHANGED gens

call_ip_version ==
    /\ Idle
    /\ \E t \in AddrTexts :
           /\ op' = "ip_version"
           /\ args' = <<t>>
           /\ result' = ip_version(t)
    /\ UNCHANGED gens

call_first_address ==
    /\ Idle
    /\ \E b \in BlockTexts :
           /\ op' = "ip_network_block_first_address"
           /\ args' = <<b>>
           /\ result' = ip_network_block_first_address(b)
    /\ UNCHANGED gens

call_last_address ==
    /\ Idle
    /\ \E b \in BlockTexts :
           /\ op' = "ip_network_block_last_address"
           /\ args' = <<b>>
           /\ result' = ip_network_block_last_address(b)
    /\ UNCHANGED gens

call_ip_count ==
    /\ Idle
    /\ \E b \in BlockTexts :
           /\ op' = "ip_network_block_ip_count"
           /\ args' = <<b>>
           /\ result' = ip_network_block_ip_count(b)
    /\ UNCHANGED gens

call_to_range ==
    /\ Idle
    /\ \E b \in BlockTexts :
           /\ op' = "ip_network_block_to_range"
           /\ args' = <<b>>
           /\ result' = ip_network_block_to_range(b)
    /\ UNCHANGED gens

call_enumerate ==
    /\ Idle
    /\ \E b \in BlockTexts :
           /\ op' = "ip_network_block_enumerate"
           /\ args' = <<b>>
           /\ result' = ip_network_block_enumerate(b)
    /\ UNCHANGED gens

call_ip_in_network_block ==
    /\ Idle
    /\ \E t \in NearTexts : \E b \in BlockTexts :
           /\ op' = "ip_in_network_block"
           /\ args' = <<t, b>>
           /\ result' = ip_in_network_block(t, b)
    /\ UNCHANGED gens

call_ipv6_expand ==
    /\ Idle
    /\ \E t \in AddrTexts :
           /\ op' = "ipv6_expand"
           /\ args' = <<t>>
           /\ result' = ipv6_expand(t)
    /\ UNCHANGED gens

call_ipv6_compress ==
    /\ Idle
    /\ \E t \in AddrTexts :
           /\ op' = "ipv6_compress"
           /\ args' = <<t>>
           /\ result' = ipv6_compress(t)
    /\ UNCHANGED gens

call_ipv6_threatconnect_form ==
    /\ Idle
    /\ \E t \in AddrTexts :
           /\ op' = "ipv6_threatconnect_form"
           /\ args' = <<t>>
           /\ result' = ipv6_threatconnect_form(t)
    /\ UNCHANGED gens

call_ipv4_sum ==
    /\ Idle
    /\ \E t \in QuadTexts \cup NoQuadTexts :
           /\ op' = "ipv4_sum"
           /\ args' = <<t>>
           /\ result' = ipv4_sum(t)
    /\ UNCHANGED gens

call_ipv4_is_possible_version_number ==
    /\ Idle
    /\ \E t \in QuadTexts \cup NoQuadTexts :
           /\ op' = "ipv4_is_possible_version_number"
           /\ args' = <<t>>
           /\ result' = ipv4_is_possible_version_number(t)
    /\ UNCHANGED gens

call_ip_addresses_find ==
    /\ Idle
    /\ \E t \in FindTexts :
           /\ op' = "ip_addresses_find"
           /\ args' = <<t>>
           /\ result' = ip_addresses_find(t)
    /\ UNCHANGED gens

Returned ==
    /\ ~Idle
    /\ op' = "none"
    /\ args' = <<>>
    /\ result' = Return(<<>>)
    /\ UNCHANGED gens

Next ==
    \/ call_is_ip_address
    \/ call_ip_is_private
    \/ call_ip_is_public
    \/ call_ip_is_multicast
    \/ call_ip_is_reserved
    \/ call_ip_version
    \/ call_first_address
    \/ call_last_address
    \/ call_ip_count
    \/ call_to_range
    \/ call_enumerate
    \/ call_ip_in_network_block
    \/ call_ipv6_expand
    \/ call_ipv6_compress
    \/ call_ipv6_threatconnect_form
    \/ call_ipv4_sum
    \/ call_ipv4_is_possible_version_number
    \/ call_ip_addresses_find
    \/ Returned

Spec == Init /\ [][Next]_vars

(***************************************************************************)
(* Generator objects.  ip_network_block_enumerate(b) returns a generator   *)
(* without running its body; each next() runs it up to the next yield.     *)
(* yielded is what the consumer has received from the object so far and    *)
(* ended the exception that finished it.                                   *)
(***************************************************************************)
\* the object after one next()
Stepped(gen) ==
    The({ [gen EXCEPT
             !.frame = step.frame,
             !.yielded = IF step.out.kind = "return"
                         THEN Append(gen.yielded, step.out.value)
                         ELSE gen.yielded,
             !.ended = IF step.out.kind = "raise"
                       THEN step.out.value
                       ELSE gen.ended]
        : step \in {EnumNext(gen.block, gen.frame)} })

\* a defect: one iterator kept per CIDR string and shared by its callers
AdvanceShared(gs, i) ==
    [j \in DOMAIN gs |->
        IF gs[j].live /\ gs[j].block = gs[i].block THEN Stepped(gs[j])
        ELSE gs[j]]

\* next() on object i: only its own frame moves
Advance(gs, i) == [gs EXCEPT ![i] = Stepped(gs[i])]

GenCreate(i) ==
    /\ \E b \in GenBlocks :
           gens' = [gens EXCEPT ![i] = [NoGen EXCEPT !.live = TRUE,
                                                     !.block = b]]
    /\ UNCHANGED <<op, args, result>>

GenAdvance(i) ==
    /\ gens[i].live
    /\ gens[i].ended = ""
    /\ gens' = Advance(gens, i)
    /\ UNCHANGED <<op, args, result>>

GenNext == \E i \in 1..MaxGens : GenCreate(i) \/ GenAdvance(i)

GenSpec == Init /\ [][GenNext]_vars

(***************************************************************************)
(* The properties checked                                                  *)
(***************************************************************************)
\* the addresses of a block, lowest first, each once
BlockAddresses(n) == [k \in 1..NumAddresses(n) |-> Str(AddressAt(n, k - 1))]

\* C1: for every valid block, ip_network_block_enumerate yields exactly the
\* addresses of the block in ascending order from the network address to
\* the last address, each once, as many as ip_network_block_ip_count says.
C1_EnumerateExact ==
    (op = "ip_network_block_enumerate" /\ result.kind = "return") =>
        /\ result.value = BlockAddresses(ip_network(args[1]))
        /\ Len(result.value) = ip_network_block_ip_count(args[1]).value

\* g is at most h, as numbers written in groups
LexLeq(g, h) ==
    \A i \in 1..Len(g) : (\A j \in 1..(i - 1) : g[j] = h[j]) => g[i] <= h[i]

\* the address a lies between the addresses first and last
Between(a, first, last) ==
    a.v = first.v /\ LexLeq(first.g, a.g) /\ LexLeq(a.g, last.g)

\* C2: for every valid address text and valid block, ip_in_network_block is
\* true exactly when the address lies numerically between the first and the
\* last address of the block.
C2_MembershipIsContainment ==
    (/\ op = "ip_in_network_block"
     /\ ip_address(args[1]).ok
     /\ ip_network(args[2]).ok) =>
        result = Return(Between(
            ip_address(args[1]),
            ip_address(ip_network_block_first_address(args[2]).value),
            ip_address(ip_network_block_last_address(args[2]).value)))

\* C3: is_ip_address never raises: it returns true for every text that
\* parses as an IPv4 or IPv6 address and false for every other text.
C3_NeverRaises ==
    op = "is_ip_address" =>
        /\ result.kind = "return"
        /\ result.value = (IPv4Address(args[1]).ok \/ IPv6Address(args[1]).ok)
        /\ args[1] \in Malformed => result.value = FALSE
        /\ args[1] \in Texts4 \cup Texts6 => result.value = TRUE

\* a text that is no address has been turned into the value false
C3_Witness ==
    /\ op = "is_ip_address"
    /\ args = << <<"b", "a", "d">> >>
    /\ result = Return(FALSE)

AddressOps ==
    { "ip_is_private", "ip_is_public", "ip_is_multicast", "ip_is_reserved",
      "ip_version", "ipv6_expand", "ipv6_compress", "ipv6_threatconnect_form" }

BlockOps ==
    { "ip_network_block_first_address", "ip_network_block_last_address",
      "ip_network_block_ip_count", "ip_network_block_to_range",
      "ip_network_block_enumerate" }

\* C4: in every operation other than is_ip_address, malformed address or
\* block text raises an error and gives no returned value, for both
\* arguments of ip_in_network_block too.
C4_MalformedRaises ==
    /\ (op \in AddressOps /\ args[1] \in Malformed) => result.kind = "raise"
    /\ (op \in BlockOps /\ args[1] \in MalformedBlocks) =>
           result.kind = "raise"
    /\ (/\ op = "ip_in_network_block"
        /\ (args[1] \in Malformed \/ args[2] \in MalformedBlocks)) =>
           result.kind = "raise"

\* C5: for every valid address, ip_is_public is true exactly when the
\* address is not reserved and not multicast.
C5_PublicIsNotReservedNotMulticast ==
    (op = "ip_is_public" /\ result.kind = "return") =>
        result.value = (/\ ~ip_is_reserved(args[1]).value
                        /\ ~ip_is_multicast(args[1]).value)

\* what a generator object has yielded is the start of the sequence a fresh
\* enumeration of its block gives, begins at the network address, and is
\* all of that sequence once the object has ended
GenOk(gen) ==
    The({ IF full.kind = "raise"
          THEN gen.yielded = <<>> /\ gen.ended \in {"", "ValueError"}
          ELSE /\ Len(gen.yielded) <= Len(full.value)
               /\ gen.yielded = SubSeq(full.value, 1, Len(gen.yielded))
               /\ gen.ended \in {"", "StopIteration"}
               /\ gen.ended = "StopIteration" => gen.yielded = full.value
               /\ gen.yielded # <<>> =>
                      gen.yielded[1] =
                          ip_network_block_first_address(gen.block).value
        : full \in {ip_network_block_enumerate(gen.block)} })

\* C6: enumerations are independent and restartable: advancing or creating
\* one generator object leaves every other object as it was, every object
\* starts at the network address and yields the same finite sequence as any
\* other enumeration of its block, then ends.
C6_Restartable ==
    /\ [](\A i \in 1..MaxGens : gens[i].live => GenOk(gens[i]))
    /\ [][\A i \in 1..MaxGens :
              gens'[i] # gens[i] =>
                  \A j \in (1..MaxGens) \ {i} : gens'[j] = gens[j]]_vars

\* two objects on one block, one run to its end while the other has been
\* advanced part of the way
C6_Witness ==
    \E i \in 1..MaxGens : \E j \in 1..MaxGens :
        /\ gens[i].live /\ gens[j].live
        /\ gens[i].block = gens[j].block
        /\ gens[i].ended = "StopIteration"
        /\ gens[j].ended = ""
        /\ Len(gens[j].yielded) > 0
        /\ Len(gens[j].yielded) < Len(gens[i].yielded)

\* the places of the words of ws that are literals of IP version v
LiteralPlaces(ws, v) ==
    {i \in 1..Len(ws) :
        (IF v = 4 THEN IPv4Address(ws[i]) ELSE IPv6Address(ws[i])).ok}

\* the words of ws at the places P, in the order of the text
WordsAt(ws, P) ==
    [k \in 1..Cardinality(P) |->
        ws[CHOOSE i \in P : Cardinality({j \in P : j < i}) = k - 1]]

\* C7 as stated: ip_addresses_find returns the literals of the text in the
\* order they were found, IPv4 and IPv6 mixed, duplicates kept.
C7_FoundOrder ==
    op = "ip_addresses_find" =>
        result = Return(WordsAt(Split(args[1], " "),
                     LiteralPlaces(Split(args[1], " "), 4)
                         \cup LiteralPlaces(Split(args[1], " "), 6)))

\* C7 amended: ip_addresses_find returns the IPv4 literals of the text, as
\* the IPv4 extractor gives them, followed by the IPv6 literals, as the IPv6
\* extractor gives them; it is empty when the text holds no literal.
C7_V4ThenV6 ==
    op = "ip_addresses_find" =>
        The({ /\ result.kind = "return"
              /\ result.value =
                     WordsAt(ws, LiteralPlaces(ws, 4))
                         \o WordsAt(ws, LiteralPlaces(ws, 6))
              /\ (LiteralPlaces(ws, 4) \cup LiteralPlaces(ws, 6) = {}) =>
                     result.value = <<>>
            : ws \in {Split(args[1], " ")} })

\* a text with an IPv6 literal before an IPv4 literal has been searched and
\* the IPv4 literal comes first in what was returned
C7_Witness ==
    /\ op = "ip_addresses_find"
    /\ args = << <<":", ":", "1", " ", "8", ".", "8", ".", "8", ".", "8">> >>
    /\ result = Return(<< <<"8", ".", "8", ".", "8", ".", "8">>,
                          <<":", ":", "1">> >>)

\* eight groups in hex without leading zeros, a zero group as "0"
EightGroups(g) == Join([i \in 1..8 |-> StrHex(g[i])], <<":">>)

\* C8: for every valid IPv6 literal, ipv6_threatconnect_form returns exactly
\* eight non-empty colon-separated segments, segment i being group i of the
\* address in hex with its leading zeros stripped and an all-zero group
\* written "0".
C8_EveryLiteral ==
    (op = "ipv6_threatconnect_form" /\ IPv6Address(args[1]).ok) =>
        /\ result = Return(EightGroups(IPv6Address(args[1]).g))
        /\ Len(Split(result.value, ":")) = 8
        /\ \A i \in 1..8 : Split(result.value, ":")[i] # <<>>

DigitValue(c) ==
    CASE c = "0" -> 0 [] c = "1" -> 1 [] c = "2" -> 2 [] c = "3" -> 3
      [] c = "4" -> 4 [] c = "5" -> 5 [] c = "6" -> 6 [] c = "7" -> 7
      [] c = "8" -> 8 [] c = "9" -> 9

\* the number a text of one to three decimal digits denotes
OctetValue(s) ==
    IF Len(s) = 1 THEN DigitValue(s[1])
    ELSE IF Len(s) = 2 THEN 10 * DigitValue(s[1]) + DigitValue(s[2])
    ELSE 100 * DigitValue(s[1]) + 10 * DigitValue(s[2]) + DigitValue(s[3])

\* four dot-separated parts of one to three decimal digits
IsQuad(parts) ==
    /\ Len(parts) = 4
    /\ \A i \in 1..4 :
           Len(parts[i]) \in 1..3 /\ \A j \in 1..Len(parts[i]) :
               parts[i][j] \in {"0", "1", "2", "3", "4", "5", "6", "7",
                                "8", "9"}

QuadSum(parts) ==
    OctetValue(parts[1]) + OctetValue(parts[2]) + OctetValue(parts[3])
        + OctetValue(parts[4])

\* C9: ipv4_sum returns the sum of the four dot-separated octets read as
\* decimal integers, with no check that each is within 0..255: 8.8.8.8
\* gives 32 and 300.0.0.1 gives 301.
C9_SumOfOctets ==
    op = "ipv4_sum" =>
        The({ /\ IsQuad(parts) => result = Return(QuadSum(parts))
              /\ parts = << <<"8">>, <<"8">>, <<"8">>, <<"8">> >> =>
                     result = Return(32)
              /\ parts = << <<"3", "0", "0">>, <<"0">>, <<"0">>, <<"1">> >> =>
                     result = Return(301)
            : parts \in {Split(args[1], ".")} })

\* a text with an octet above 255 has been summed
C9_Witness ==
    /\ op = "ipv4_sum"
    /\ args = << <<"3", "0", "0", ".", "0", ".", "0", ".", "1">> >>
    /\ result = Return(301)

=============================================================================
